---- MODULE Spec2Model ----
(***************************************************************************)
(* Model of the sub-balance ledger service (fadilahonespot/sub-balance-    *)
(* demo): admission through the Redis counter (fast path) or through the   *)
(* database (fallback), the periodic settlement worker with its Redis      *)
(* recovery, the data consistency service, the Redis health checker and    *)
(* the circuit breaker.                                                    *)
(*                                                                         *)
(* Granularity: one action per database statement or Redis call; the Go    *)
(* code between two such calls only touches locals and is folded into the  *)
(* step that follows the call whose result it consumes.  The repositories  *)
(* run every statement on the shared *gorm.DB handle in autocommit mode    *)
(* (no db.Transaction / Begin around the service methods), so each         *)
(* statement is its own transaction and nothing is held between two        *)
(* statements of one handler.                                              *)
(*                                                                         *)
(* Amounts are whole numbers: for those decimal.InexactFloat64 and the     *)
(* Lua number arithmetic of the counter scripts are exact.                 *)
(***************************************************************************)
EXTENDS Integers, Sequences, FiniteSets, TLC

\* ---------------------------------------------------------------- bounds
\* Concurrent client requests of the general specification.
MaxReq == 2
\* Concurrent client requests of the fast-path-only specification.
FastReq == 5
\* Largest initial balance of the general specification.
MaxBal == 1
\* Largest amount of a request of the general specification.
MaxAmt == 1
\* Redis outages in one behaviour.
MaxOutages == 1
\* Runs of ValidateAndRepair in one behaviour.
MaxRepairs == 1
\* Largest initial balance and amount of the admission-only specification.
AdmitBal == 2
\* Largest initial balance and amount of the sequential specification.
SeqBal == 2
\* Settlement ticks that find nothing pending, in one behaviour.
MaxTicks == 1
\* CIRCUIT_BREAKER_TIMEOUT in ticks of the model's clock.
CooldownTicks == 2
BreakerReq == 5
MaxInFlight == 3
BreakerOutages == 4

\* ------------------------------------------------------ program constants
\* CIRCUIT_BREAKER_FAILURE_THRESHOLD default.
FailureThreshold == 3
\* SETTLEMENT_BATCH_SIZE fallback when the configured value is <= 0.
DefaultBatchSize == 100

\* Minor units in one unit of currency: amounts are decimal(20,2) columns.
MinorUnits == 100

\* Marker of a Redis key that does not exist (redis.Nil / GET == false).
NoKey == -1

Types == {"debit", "credit"}

VARIABLES
    acct,       \* account_balances: id -> row
    initial,    \* id -> balance the account was created with (never changes)
    subs,       \* sub_balances in creation order; the index is the id
    counter,    \* Redis: id -> value of <prefix>:pending:<id>, or NoKey
    redisUp,    \* whether the Redis backend answers
    healthy,    \* RedisHealthChecker.isHealthy
    breaker,    \* CircuitBreaker: state, failureCount, ticks since lastFailureTime
    batchSize,  \* config.SettlementBatchSize
    req,        \* client requests: slot -> handler position and locals
    sw,         \* settlement worker: position and locals
    cw,         \* consistency checker: position and locals
    budget,     \* what is left of the bounds on outages, consistency runs
                \* and settlement ticks that find nothing pending
    reply       \* what the last direct call of a counter operation returned

vars == <<acct, initial, subs, counter, redisUp, healthy, breaker, batchSize,
          req, sw, cw, budget, reply>>

\* ---------------------------------------------------------------- helpers
NoRow == [settled |-> 0, pd |-> 0, pc |-> 0, avail |-> 0, version |-> 0, last |-> 0]

\* repository.AccountBalance as CreateAccount builds it.
NewAccount(initialBalance) ==
    [settled |-> initialBalance, pd |-> 0, pc |-> 0, avail |-> initialBalance,
     version |-> 1, last |-> 0]

Abs(x) == IF x < 0 THEN -x ELSE x

Max2(x, y) == IF x > y THEN x ELSE y

RECURSIVE SumAmounts(_, _)
\* Sum of the amounts of the rows of table whose ids are in ids.
SumAmounts(table, ids) ==
    IF ids = {} THEN 0
    ELSE LET i == CHOOSE x \in ids : TRUE
         IN table[i].amt + SumAmounts(table, ids \ {i})

\* Ids of the PENDING rows of account a.
PendingIds(a) == {i \in DOMAIN subs : subs[i].acct = a /\ subs[i].status = "PENDING"}

\* SELECT COALESCE(SUM(amount), 0) WHERE account_id = ? AND status = 'PENDING':
\* the amounts are summed whatever the type of the row.
GetTotalPendingByAccountID(a) == SumAmounts(subs, PendingIds(a))

\* The counter value as GetPending and the Lua scripts read it: absent is 0.
GetPending(a) == IF counter[a] = NoKey THEN 0 ELSE counter[a]

\* AddPending without the overspend branch of its script.
AddPendingUnbounded(cur, amount, maxBalance) ==
    LET current == IF cur = NoKey THEN 0 ELSE cur
    IN IF current + amount < 0 THEN [ok |-> FALSE, key |-> cur]
       ELSE [ok |-> TRUE, key |-> current + amount]

\* AddPending with a script that also refuses a total equal to the ceiling.
AddPendingStrict(cur, amount, maxBalance) ==
    LET current == IF cur = NoKey THEN 0 ELSE cur
        newTotal == current + amount
    IN IF newTotal >= maxBalance THEN [ok |-> FALSE, key |-> cur]
       ELSE IF newTotal < 0 THEN [ok |-> FALSE, key |-> cur]
       ELSE [ok |-> TRUE, key |-> newTotal]

\* AddPending with a script that stores the new total before it validates.
AddPendingLeaky(cur, amount, maxBalance) ==
    LET current == IF cur = NoKey THEN 0 ELSE cur
        newTotal == current + amount
    IN IF newTotal > maxBalance THEN [ok |-> FALSE, key |-> newTotal]
       ELSE IF newTotal < 0 THEN [ok |-> FALSE, key |-> newTotal]
       ELSE [ok |-> TRUE, key |-> newTotal]

\* The Lua script of AddPending on the stored value cur: the reply's success
\* flag and the value the key holds afterwards.
AddPendingScript(cur, amount, maxBalance) ==
    LET current == IF cur = NoKey THEN 0 ELSE cur
        newTotal == current + amount
    IN IF newTotal > maxBalance THEN [ok |-> FALSE, key |-> cur]
       ELSE IF newTotal < 0 THEN [ok |-> FALSE, key |-> cur]
       ELSE [ok |-> TRUE, key |-> newTotal]

\* A Lua number returned by a script reaches the client as a Redis integer
\* reply: the fraction is dropped.  x is in minor units.
ToRedisInteger(x) ==
    IF x >= 0 THEN (x \div MinorUnits) * MinorUnits
    ELSE -(((-x) \div MinorUnits) * MinorUnits)

\* What AddPending returns to its Go caller on the stored value cur (in
\* minor units): success == 1, values[1] as the client received it, and
\* whether the script ran SET and EXPIRE.
AddPendingReply(cur, amount, maxBalance) ==
    LET current == IF cur = NoKey THEN 0 ELSE cur
        out == AddPendingScript(cur, amount, maxBalance)
    IN [ok |-> out.ok,
        total |-> ToRedisInteger(IF out.ok THEN current + amount ELSE current),
        expire |-> out.ok]

\* RemovePending with a script that does not floor the new total at zero.
RemovePendingNoFloor(cur, amount) ==
    LET current == IF cur = NoKey THEN 0 ELSE cur
    IN current - amount

\* The Lua script of RemovePending: the value the key holds afterwards.
RemovePendingScript(cur, amount) ==
    LET current == IF cur = NoKey THEN 0 ELSE cur
    IN Max2(current - amount, 0)

\* accountBalanceRepository.UpdateBalance: the row after
\* UPDATE ... WHERE id = ? AND version = <version read>.  A statement that
\* matches no row changes nothing and returns a nil error.
UpdateBalance(stored, balance) ==
    IF stored.version = balance.version
    THEN [balance EXCEPT !.version = balance.version + 1,
                         !.avail = balance.settled + balance.pc - balance.pd]
    ELSE stored

\* subBalanceRepository.UpdateStatusBatch: WHERE id IN ids.
UpdateStatusBatch(table, ids, status) ==
    [i \in DOMAIN table |->
        IF i \in ids THEN [table[i] EXCEPT !.status = status] ELSE table[i]]

\* An insert that stores every entry as a debit.
CreateAsDebit(table, a, amount, type) ==
    Append(table, [acct |-> a, amt |-> amount, type |-> "debit", status |-> "PENDING"])

\* subBalanceRepository.Create: a row with a fresh id, status PENDING.
Create(table, a, amount, type) ==
    Append(table, [acct |-> a, amt |-> amount, type |-> type, status |-> "PENDING"])

IdleReq ==
    [pc |-> "idle", acct |-> "a1", amt |-> 0, type |-> "debit", av |-> 0,
     max |-> 0, row |-> NoRow, res |-> "none", path |-> "none", sub |-> 0,
     cancelled |-> FALSE]

\* No counter operation was called directly yet.
NoReply == [op |-> "none", delta |-> 0, ceiling |-> 0, ok |-> FALSE, total |-> 0,
            expire |-> FALSE]

IdleSw == [pc |-> "idle", list |-> <<>>, i |-> 1, grp |-> {}, cur |-> "a1",
           row |-> NoRow, pend |-> <<>>, todo |-> {}, max |-> 0]

IdleCw == [pc |-> "idle", snap |-> <<>>, todo |-> {}, cur |-> "a1", pdb |-> 0]

\* NewCircuitBreaker; holder is the request that holds the mutex, 0 for none.
ClosedBreaker == [state |-> "CLOSED", fails |-> 0, since |-> 0, holder |-> 0]

\* ------------------------------------------------------------------- Init
\* The service after start-up: Redis was pinged, the accounts were created
\* through CreateAccount, nothing was submitted yet.
InitWith(ids, balances, slots, sizes) ==
    /\ initial \in [ids -> balances]
    /\ acct = [a \in ids |-> NewAccount(initial[a])]
    /\ subs = <<>>
    /\ counter = [a \in ids |-> NoKey]
    /\ redisUp = TRUE
    /\ healthy = TRUE
    /\ breaker = ClosedBreaker
    /\ batchSize \in sizes
    /\ req = [r \in slots |-> IdleReq]
    /\ sw = IdleSw
    /\ cw = IdleCw
    /\ budget = [outages |-> MaxOutages, repairs |-> MaxRepairs, ticks |-> MaxTicks]
    /\ reply = NoReply

Init == InitWith({"a1"}, {0, MaxBal}, 1..MaxReq, {1, DefaultBatchSize})

\* Whether the consistency service's open transaction holds the row of a
\* (from its Save to its commit other writers of the row wait).
RowLocked(a) == cw.pc \in {"cw_clear", "cw_add", "cw_commit"} /\ cw.cur = a

\* ------------------------------------------------------------- admission
\* A response ends the handler; its locals are dropped.
Respond(r, res, path, sub) ==
    [req[r] EXCEPT !.pc = "done", !.res = res, !.path = path, !.sub = sub,
                   !.av = 0, !.max = 0, !.row = NoRow]

\* ProcessTransaction that takes the fast path whatever the health bit says.
SubmitAlwaysFast(r, a, amount, type) ==
    /\ req[r].pc = "idle"
    /\ \A q \in DOMAIN req : q < r => req[q].pc # "idle"
    /\ req' = [req EXCEPT ![r] = [@ EXCEPT !.pc = "qv_account",
                                            !.acct = a, !.amt = amount, !.type = type]]
    /\ UNCHANGED <<reply, acct, initial, subs, counter, redisUp, healthy, breaker, batchSize, budget, sw, cw>>

\* ProcessTransaction: the handler reads the health bit and picks the path.
Submit(r, a, amount, type) ==
    /\ req[r].pc = "idle"
    /\ \A q \in DOMAIN req : q < r => req[q].pc # "idle"
    /\ req' = [req EXCEPT ![r] = [@ EXCEPT !.pc = IF healthy THEN "qv_account" ELSE "fb_lock",
                                            !.acct = a, !.amt = amount, !.type = type]]
    /\ UNCHANGED <<reply, acct, initial, subs, counter, redisUp, healthy, breaker, batchSize, budget, sw, cw>>

\* quickValidateBalance, first read: the account row without lock.  An
\* error of the read (the request's context is cancelled) is answered
\* REJECTED like every error of quickValidateBalance.
QvAccount(r) ==
    /\ req[r].pc = "qv_account"
    /\ LET balance == acct[req[r].acct]
       IN req' = [req EXCEPT ![r] =
                    IF req[r].cancelled THEN Respond(r, "rejected", "redis", 0)
                    ELSE [@ EXCEPT !.pc = "qv_pending",
                                   !.av = balance.settled + balance.pc - balance.pd]]
    /\ UNCHANGED <<reply, acct, initial, subs, counter, redisUp, healthy, breaker, batchSize, budget, sw, cw>>

\* quickValidateBalance, second read: the counter.  A Redis error and a
\* remaining balance below the amount both end in a REJECTED response.
QvPending(r) ==
    /\ req[r].pc = "qv_pending"
    /\ LET remainingBalance == req[r].av - GetPending(req[r].acct)
       IN req' = [req EXCEPT ![r] =
                    IF ~redisUp \/ req[r].cancelled THEN Respond(r, "rejected", "redis", 0)
                    ELSE IF remainingBalance < req[r].amt THEN Respond(r, "rejected", "redis", 0)
                    ELSE [@ EXCEPT !.pc = "fp_max", !.av = 0]]
    /\ UNCHANGED <<reply, acct, initial, subs, counter, redisUp, healthy, breaker, batchSize, budget, sw, cw>>

\* processWithRedis step 2: the account row again, for maxBalance.
FpMax(r) ==
    /\ req[r].pc = "fp_max"
    /\ LET balance == acct[req[r].acct]
       IN req' = [req EXCEPT ![r] =
                    IF req[r].cancelled THEN Respond(r, "error", "redis", 0)
                    ELSE [@ EXCEPT !.pc = "fp_reserve",
                                   !.max = balance.settled + balance.pc - balance.pd]]
    /\ UNCHANGED <<reply, acct, initial, subs, counter, redisUp, healthy, breaker, batchSize, budget, sw, cw>>

\* A breaker whose successful call closes it but keeps the failure count.
BreakerNoReset(b, failed) ==
    IF failed
    THEN [state |-> IF b.fails + 1 >= FailureThreshold THEN "OPEN"
                    ELSE IF b.state = "OPEN" THEN "HALF_OPEN" ELSE b.state,
          fails |-> b.fails + 1, since |-> 0, holder |-> 0]
    ELSE [state |-> "CLOSED", fails |-> b.fails, since |-> 0, holder |-> 0]

\* CircuitBreaker.Call around fn, after fn returned err (or nil): the whole
\* call runs under the breaker's mutex.  lastFailureTime is only read while
\* the state is OPEN, which only a failure sets, so the clock is kept at 0
\* in the other states.
BreakerAfter(b, failed) ==
    IF failed
    THEN [state |-> IF b.fails + 1 >= FailureThreshold THEN "OPEN"
                    ELSE IF b.state = "OPEN" THEN "HALF_OPEN" ELSE b.state,
          fails |-> b.fails + 1, since |-> 0, holder |-> 0]
    ELSE ClosedBreaker

\* CircuitBreaker.Call refuses without calling fn: open, and not
\* time.Since(lastFailureTime) > timeout.
BreakerRefuses(b) == b.state = "OPEN" /\ ~(b.since > CooldownTicks)

\* processWithRedis step 3: AddPending(accountID, amount, maxBalance) through
\* the circuit breaker; an error of the breaker or of Redis goes to the
\* database fallback, a refusal of the script is a REJECTED response.
FpReserve(r) ==
    /\ req[r].pc = "fp_reserve"
    /\ LET a == req[r].acct
           out == AddPendingScript(counter[a], req[r].amt, req[r].max)
       IN IF BreakerRefuses(breaker)
          THEN /\ req' = [req EXCEPT ![r] = [@ EXCEPT !.pc = "fb_lock", !.max = 0]]
               /\ UNCHANGED <<counter, breaker>>
          ELSE IF ~redisUp \/ req[r].cancelled
          THEN /\ req' = [req EXCEPT ![r] = [@ EXCEPT !.pc = "fb_lock", !.max = 0]]
               /\ breaker' = BreakerAfter(breaker, TRUE)
               /\ UNCHANGED counter
          ELSE /\ breaker' = BreakerAfter(breaker, FALSE)
               /\ counter' = [counter EXCEPT ![a] = out.key]
               /\ req' = [req EXCEPT ![r] =
                            IF out.ok THEN [@ EXCEPT !.pc = "fp_insert", !.max = 0]
                            ELSE Respond(r, "rejected", "redis", 0)]
    /\ UNCHANGED <<reply, acct, initial, subs, redisUp, healthy, batchSize, budget, sw, cw>>

\* processWithRedis step 4: insert the sub_balance row, answer PENDING.
\* With the request's context cancelled the insert fails, and so does the
\* RemovePending that is to roll the reservation back, which runs on the
\* same context (its error is not looked at); the handler returns an error.
FpInsert(r) ==
    /\ req[r].pc = "fp_insert"
    /\ IF req[r].cancelled
       THEN /\ subs' = subs
            /\ req' = [req EXCEPT ![r] = Respond(r, "error", "redis", 0)]
       ELSE /\ subs' = Create(subs, req[r].acct, req[r].amt, req[r].type)
            /\ req' = [req EXCEPT ![r] = Respond(r, "pending", "redis", Len(subs) + 1)]
    /\ UNCHANGED <<reply, acct, initial, counter, redisUp, healthy, breaker, batchSize, budget, sw, cw>>

\* processWithDatabaseFallback step 1: GetByIDForUpdate.  The read runs on
\* the shared handle outside any transaction (and the "gorm:query_option"
\* setting is not one gorm.io/gorm reads), so no row lock outlives it.
FbLock(r) ==
    /\ req[r].pc = "fb_lock"
    /\ req' = [req EXCEPT ![r] =
                 IF req[r].cancelled THEN Respond(r, "error", "db", 0)
                 ELSE [@ EXCEPT !.pc = "fb_sum", !.row = acct[req[r].acct]]]
    /\ UNCHANGED <<reply, acct, initial, subs, counter, redisUp, healthy, breaker, batchSize, budget, sw, cw>>

\* processWithDatabaseFallback steps 2-3: the pending total of the account's
\* sub_balance rows and the check settled - totalPending >= amount, applied
\* to debits and credits alike.
FbSum(r) ==
    /\ req[r].pc = "fb_sum"
    /\ LET totalPending == GetTotalPendingByAccountID(req[r].acct)
           actualAvailable == req[r].row.settled - totalPending
       IN req' = [req EXCEPT ![r] =
                    IF req[r].cancelled THEN Respond(r, "error", "db", 0)
                    ELSE IF actualAvailable < req[r].amt THEN Respond(r, "rejected", "db", 0)
                    ELSE [@ EXCEPT !.pc = "fb_insert"]]
    /\ UNCHANGED <<reply, acct, initial, subs, counter, redisUp, healthy, breaker, batchSize, budget, sw, cw>>

\* processWithDatabaseFallback step 4: insert the sub_balance row.
FbInsert(r) ==
    /\ req[r].pc = "fb_insert"
    /\ IF req[r].cancelled
       THEN /\ subs' = subs
            /\ req' = [req EXCEPT ![r] = Respond(r, "error", "db", 0)]
       ELSE /\ subs' = Create(subs, req[r].acct, req[r].amt, req[r].type)
            /\ req' = [req EXCEPT ![r] = [@ EXCEPT !.pc = "fb_update", !.sub = Len(subs) + 1]]
    /\ UNCHANGED <<reply, acct, initial, counter, redisUp, healthy, breaker, batchSize, budget, sw, cw>>

\* processWithDatabaseFallback step 5: PendingDebit += amount (whatever the
\* type), UpdateBalance, answer PENDING.
FbUpdate(r) ==
    /\ req[r].pc = "fb_update"
    /\ ~RowLocked(req[r].acct)
    /\ LET a == req[r].acct
           balance == [req[r].row EXCEPT !.pd = @ + req[r].amt]
       IN acct' = IF req[r].cancelled THEN acct
                  ELSE [acct EXCEPT ![a] = UpdateBalance(acct[a], balance)]
    /\ req' = [req EXCEPT ![r] =
                 Respond(r, IF req[r].cancelled THEN "error" ELSE "pending", "db", req[r].sub)]
    /\ UNCHANGED <<reply, initial, subs, counter, redisUp, healthy, breaker, batchSize, budget, sw, cw>>

\* processWithRedis step 4 when Create returns an error although the
\* request's context is live (the database refuses the insert): the
\* reservation is rolled back with RemovePending, whose error is not looked
\* at, and the handler returns an error.
FpInsertFails(r) ==
    /\ req[r].pc = "fp_insert"
    /\ ~req[r].cancelled
    /\ counter' = IF redisUp
                  THEN [counter EXCEPT ![req[r].acct] = RemovePendingScript(@, req[r].amt)]
                  ELSE counter
    /\ req' = [req EXCEPT ![r] = Respond(r, "error", "redis", 0)]
    /\ UNCHANGED <<reply, acct, initial, subs, redisUp, healthy, breaker, batchSize, budget, sw, cw>>

\* The context of request r is cancelled (the client went away) while its
\* handler runs: every database statement and Redis call the handler makes
\* from now on returns the context's error.
Cancel(r) ==
    /\ req[r].pc \notin {"idle", "done"}
    /\ ~req[r].cancelled
    /\ req' = [req EXCEPT ![r] = [@ EXCEPT !.cancelled = TRUE]]
    /\ UNCHANGED <<reply, acct, initial, subs, counter, redisUp, healthy, breaker, batchSize, budget, sw, cw>>

\* One step of the handler of request r, after ProcessTransaction chose the path.
Handle(r) ==
    \/ QvAccount(r)
    \/ QvPending(r)
    \/ FpMax(r)
    \/ FpReserve(r)
    \/ FpInsert(r)
    \/ FbLock(r)
    \/ FbSum(r)
    \/ FbInsert(r)
    \/ FbUpdate(r)

\* ------------------------------------------------------------ environment
\* The Redis backend stops answering.
RedisDown ==
    /\ redisUp
    /\ budget.outages > 0
    /\ redisUp' = FALSE
    /\ budget' = [budget EXCEPT !.outages = @ - 1]
    /\ UNCHANGED <<reply, acct, initial, subs, counter, healthy, breaker, batchSize, req, sw, cw>>

\* The Redis backend answers again (its keys are kept; KeyExpires covers
\* the loss of a key).
RedisBack ==
    /\ ~redisUp
    /\ redisUp' = TRUE
    /\ UNCHANGED <<reply, acct, initial, subs, counter, healthy, breaker, batchSize, budget, req, sw, cw>>

\* The TTL of a counter key (REDIS_KEY_EXPIRY) runs out.
KeyExpires(a) ==
    /\ counter[a] # NoKey
    /\ counter' = [counter EXCEPT ![a] = NoKey]
    /\ UNCHANGED <<reply, acct, initial, subs, redisUp, healthy, breaker, batchSize, budget, req, sw, cw>>

\* RedisHealthChecker.checkHealth: isHealthy = (Ping succeeded).
CheckHealth ==
    /\ healthy # redisUp
    /\ healthy' = redisUp
    /\ UNCHANGED <<reply, acct, initial, subs, counter, redisUp, breaker, batchSize, budget, req, sw, cw>>

\* One tick of the clock time.Since(lastFailureTime) reads; the model stops
\* counting once the timeout is exceeded.
TimePasses ==
    /\ breaker.state = "OPEN"
    /\ breaker.since <= CooldownTicks
    /\ breaker' = [breaker EXCEPT !.since = @ + 1]
    /\ UNCHANGED <<reply, acct, initial, subs, counter, redisUp, healthy, batchSize, budget, req, sw, cw>>

Outage == RedisDown \/ RedisBack \/ CheckHealth

\* ------------------------------------------------------------- settlement
\* Position of an account id in ORDER BY account_id.
AcctRank(a) == IF a = "a1" THEN 1 ELSE 2

RECURSIVE OrderIds(_, _)
\* The ids in the order ORDER BY account_id, created_at ASC.
OrderIds(table, ids) ==
    IF ids = {} THEN <<>>
    ELSE LET key(i) == AcctRank(table[i].acct) * (Len(table) + 1) + i
             m == CHOOSE x \in ids : \A y \in ids : key(x) <= key(y)
         IN <<m>> \o OrderIds(table, ids \ {m})

\* GetAllPending without its WHERE status = 'PENDING'.
GetAllRows(table) == OrderIds(table, DOMAIN table)

\* subBalanceRepository.GetAllPending: the ids of the PENDING rows, ordered.
GetAllPending(table) ==
    OrderIds(table, {i \in DOMAIN table : table[i].status = "PENDING"})

\* processSettlement: batchSize <= 0 means 100.
EffectiveBatchSize == IF batchSize <= 0 THEN DefaultBatchSize ELSE batchSize

\* pendingTransactions[i:end] of processSettlement, as a set of ids.
BatchIds(list, i) ==
    {list[k] : k \in {k \in DOMAIN list : i <= k /\ k < i + EffectiveBatchSize}}

\* accountGroups[a] of the batch that starts at i.
GroupIds(list, i, a) == {id \in BatchIds(list, i) : subs[id].acct = a}

\* The accounts that have a group in the batch that starts at i.
GroupAccounts(list, i) == {subs[id].acct : id \in BatchIds(list, i)}

\* settleAccount step 2: debits subtract, credits add.
TotalDelta(table, ids) ==
    SumAmounts(table, {i \in ids : table[i].type = "credit"})
    - SumAmounts(table, {i \in ids : table[i].type = "debit"})

\* settleAccount step 3: the balance the double check looks at.
NewBalance(balance, totalDelta) ==
    (balance.settled + balance.pc - balance.pd) + totalDelta

\* settleAccount without its double check.
NoDoubleCheck(balance, totalDelta) == FALSE

\* settleAccount step 3: whether the group is rejected.
WouldGoNegative(balance, totalDelta) == NewBalance(balance, totalDelta) < 0

\* settleAccount step 4: the balance handed to UpdateBalance; `stamp` stands
\* for time.Now() (the largest id of the group: fresh at every settlement).
SettledRow(balance, totalDelta, stamp) ==
    [balance EXCEPT !.settled = @ + totalDelta, !.pd = 0, !.pc = 0, !.last = stamp]

MaxOf(S) == CHOOSE x \in S : \A y \in S : y <= x

\* The group settleAccount is working on.
SwIds == GroupIds(sw.list, sw.i, sw.cur)

\* processSettlement after settleAccount returned: the next group of the
\* batch, the next batch, or the end of the loop, where RecoverRedisFromDatabase
\* runs if the health bit is green (ENABLE_AUTO_RECOVERY).
SwAdvance(w) ==
    IF w.grp # {} THEN [w EXCEPT !.pc = "sw_account", !.row = NoRow]
    ELSE IF w.i + EffectiveBatchSize <= Len(w.list)
    THEN [w EXCEPT !.pc = "sw_account", !.row = NoRow,
                   !.i = w.i + EffectiveBatchSize,
                   !.grp = GroupAccounts(w.list, w.i + EffectiveBatchSize)]
    ELSE IF healthy THEN [IdleSw EXCEPT !.pc = "rc_read"]
    ELSE IdleSw

\* processSettlement that returns at the first error of settleAccount.
StopOnError(w) == IdleSw

\* processSettlement after settleAccount returned an error: the error is
\* logged and the loop goes on.
AfterError(w) == SwAdvance(w)

\* processSettlement step 1: GetAllPending; an empty result ends the cycle
\* at once (before the recovery).
SwStart ==
    /\ sw.pc = "idle"
    /\ GetAllPending(subs) # <<>>
    /\ sw' = [IdleSw EXCEPT !.pc = "sw_account", !.list = GetAllPending(subs),
                            !.grp = GroupAccounts(GetAllPending(subs), 1)]
    /\ UNCHANGED <<reply, acct, initial, subs, counter, redisUp, healthy, breaker, batchSize, budget, req, cw>>

\* processSettlement when GetAllPending returns no row: it returns at once,
\* before the recovery, and nothing is written.
SwEmpty ==
    /\ sw.pc = "idle"
    /\ GetAllPending(subs) = <<>>
    /\ budget.ticks > 0
    /\ budget' = [budget EXCEPT !.ticks = @ - 1]
    /\ UNCHANGED <<reply, acct, initial, subs, counter, redisUp, healthy, breaker, batchSize, req, sw, cw>>

\* settleAccount steps 1-3: GetByIDForUpdate of one account of the batch
\* (Go iterates the map in any order), totalDelta and the double check.
SwLock(a) ==
    /\ sw.pc = "sw_account"
    /\ a \in sw.grp
    /\ LET totalDelta == TotalDelta(subs, GroupIds(sw.list, sw.i, a))
       IN sw' = [sw EXCEPT !.cur = a, !.grp = @ \ {a}, !.row = acct[a],
                           !.pc = IF WouldGoNegative(acct[a], totalDelta)
                                  THEN "sw_reject" ELSE "sw_update"]
    /\ UNCHANGED <<reply, acct, initial, subs, counter, redisUp, healthy, breaker, batchSize, budget, req, cw>>

\* settleAccount, rejection: UpdateStatusBatch(ids, "REJECTED").
SwReject ==
    /\ sw.pc = "sw_reject"
    /\ subs' = UpdateStatusBatch(subs, SwIds, "REJECTED")
    /\ sw' = [sw EXCEPT !.pc = "sw_unreserve"]
    /\ UNCHANGED <<reply, acct, initial, counter, redisUp, healthy, breaker, batchSize, budget, req, cw>>

\* settleAccount, rejection: RemovePending(accountID, |totalDelta|), its
\* error ignored; settleAccount returns an error and the loop continues.
SwUnreserve ==
    /\ sw.pc = "sw_unreserve"
    /\ counter' = IF redisUp
                  THEN [counter EXCEPT ![sw.cur] =
                          RemovePendingScript(@, Abs(TotalDelta(subs, SwIds)))]
                  ELSE counter
    /\ sw' = AfterError(sw)
    /\ UNCHANGED <<reply, acct, initial, subs, redisUp, healthy, breaker, batchSize, budget, req, cw>>

\* settleAccount steps 4-5: UpdateBalance with the new settled balance.
SwUpdate ==
    /\ sw.pc = "sw_update"
    /\ ~RowLocked(sw.cur)
    /\ acct' = [acct EXCEPT ![sw.cur] =
                  UpdateBalance(@, SettledRow(sw.row, TotalDelta(subs, SwIds), MaxOf(SwIds)))]
    /\ sw' = [sw EXCEPT !.pc = "sw_mark", !.row = NoRow]
    /\ UNCHANGED <<reply, initial, subs, counter, redisUp, healthy, breaker, batchSize, budget, req, cw>>

\* settleAccount step 6: UpdateStatusBatch(ids, "SETTLED").
SwMark ==
    /\ sw.pc = "sw_mark"
    /\ subs' = UpdateStatusBatch(subs, SwIds, "SETTLED")
    /\ sw' = [sw EXCEPT !.pc = "sw_clear"]
    /\ UNCHANGED <<reply, acct, initial, counter, redisUp, healthy, breaker, batchSize, budget, req, cw>>

\* settleAccount step 7: ClearPending, its error only logged.
SwClear ==
    /\ sw.pc = "sw_clear"
    /\ counter' = IF redisUp THEN [counter EXCEPT ![sw.cur] = NoKey] ELSE counter
    /\ sw' = SwAdvance(sw)
    /\ UNCHANGED <<reply, acct, initial, subs, redisUp, healthy, breaker, batchSize, budget, req, cw>>

Settlement ==
    \/ SwStart
    \/ \E a \in DOMAIN acct : SwLock(a)
    \/ SwReject
    \/ SwUnreserve
    \/ SwUpdate
    \/ SwMark
    \/ SwClear

\* ------------------------------------------- recovery of the counters
\* RecoverRedisFromDatabase steps 1-2: the PENDING rows, summed per account
\* (amounts of debits and credits alike); then the first key of the map.
RcRead ==
    /\ sw.pc = "rc_read"
    /\ LET withPending == {a \in DOMAIN acct : PendingIds(a) # {}}
           accountPending == [a \in withPending |-> GetTotalPendingByAccountID(a)]
       IN sw' = IF withPending = {}
                THEN [sw EXCEPT !.pc = "rc_rest", !.todo = DOMAIN acct]
                ELSE [sw EXCEPT !.pc = "rc_clear", !.pend = accountPending,
                                !.todo = withPending]
    /\ UNCHANGED <<reply, acct, initial, subs, counter, redisUp, healthy, breaker, batchSize, budget, req, cw>>

\* RecoverRedisFromDatabase step 3, per account of the map (in any order):
\* ClearPending, its error only logged.
RcClear(a) ==
    /\ sw.pc = "rc_clear"
    /\ a \in sw.todo
    /\ counter' = IF redisUp THEN [counter EXCEPT ![a] = NoKey] ELSE counter
    /\ sw' = [sw EXCEPT !.pc = "rc_get", !.cur = a, !.todo = @ \ {a}]
    /\ UNCHANGED <<reply, acct, initial, subs, redisUp, healthy, breaker, batchSize, budget, req, cw>>

\* RecoverRedisFromDatabase step 3: GetByID for maxBalance.
RcGet ==
    /\ sw.pc = "rc_get"
    /\ LET account == acct[sw.cur]
       IN sw' = [sw EXCEPT !.pc = "rc_add", !.max = account.settled + account.pc - account.pd]
    /\ UNCHANGED <<reply, acct, initial, subs, counter, redisUp, healthy, breaker, batchSize, budget, req, cw>>

\* After the loop over the map: the accounts without pending rows (step 4).
RcNext(w) ==
    IF w.todo # {} THEN [w EXCEPT !.pc = "rc_clear", !.max = 0]
    ELSE IF DOMAIN acct \ DOMAIN w.pend = {} THEN IdleSw
    ELSE [w EXCEPT !.pc = "rc_rest", !.max = 0, !.todo = DOMAIN acct \ DOMAIN w.pend]

\* RecoverRedisFromDatabase step 3: AddPending(accountID, totalPending,
\* maxBalance); neither its error nor a refusal stops the recovery.
RcAdd ==
    /\ sw.pc = "rc_add"
    /\ counter' = IF redisUp
                  THEN [counter EXCEPT ![sw.cur] =
                          AddPendingScript(@, sw.pend[sw.cur], sw.max).key]
                  ELSE counter
    /\ sw' = RcNext(sw)
    /\ UNCHANGED <<reply, acct, initial, subs, redisUp, healthy, breaker, batchSize, budget, req, cw>>

\* RecoverRedisFromDatabase step 4: ClearPending for an account that had no
\* pending row in step 1.
RcRest(a) ==
    /\ sw.pc = "rc_rest"
    /\ a \in sw.todo
    /\ counter' = IF redisUp THEN [counter EXCEPT ![a] = NoKey] ELSE counter
    /\ sw' = IF sw.todo = {a} THEN IdleSw ELSE [sw EXCEPT !.todo = @ \ {a}]
    /\ UNCHANGED <<reply, acct, initial, subs, redisUp, healthy, breaker, batchSize, budget, req, cw>>

Recovery ==
    \/ RcRead
    \/ \E a \in DOMAIN acct : RcClear(a)
    \/ RcGet
    \/ RcAdd
    \/ \E a \in DOMAIN acct : RcRest(a)

\* ------------------------------------------------- consistency service
\* validateAccount step 3.
ActualAvailable(account, pendingFromDB) == account.settled - pendingFromDB

\* ValidateAndRepair after an account is done: the next one, or the end.
CwNext(w) ==
    IF w.todo = {} THEN IdleCw
    ELSE [w EXCEPT !.pc = "cw_sum", !.pdb = 0]

\* ValidateAndRepair step 1: db.Find(&accounts), all rows as they are now.
CwFind ==
    /\ cw.pc = "idle"
    /\ budget.repairs > 0
    /\ cw' = [IdleCw EXCEPT !.pc = "cw_sum", !.snap = acct, !.todo = DOMAIN acct]
    /\ budget' = [budget EXCEPT !.repairs = @ - 1]
    /\ UNCHANGED <<reply, acct, initial, subs, counter, redisUp, healthy, breaker, batchSize, req, sw>>

\* validateAccount step 1: the pending total of the account's rows.
CwSum(a) ==
    /\ cw.pc = "cw_sum"
    /\ a \in cw.todo
    /\ cw' = [cw EXCEPT !.pc = "cw_redis", !.cur = a, !.todo = @ \ {a},
                        !.pdb = GetTotalPendingByAccountID(a)]
    /\ UNCHANGED <<reply, acct, initial, subs, counter, redisUp, healthy, breaker, batchSize, budget, req, sw>>

\* validateAccount steps 2-6: GetPending (an error means no Redis check),
\* the two comparisons and the decision to repair.
CwRedis ==
    /\ cw.pc = "cw_redis"
    /\ LET account == cw.snap[cw.cur]
           redisInconsistent == redisUp /\ cw.pdb # GetPending(cw.cur)
           balanceInconsistent == account.avail # ActualAvailable(account, cw.pdb)
       IN cw' = IF redisInconsistent \/ balanceInconsistent
                THEN [cw EXCEPT !.pc = "cw_save"]
                ELSE CwNext(cw)
    /\ UNCHANGED <<reply, acct, initial, subs, counter, redisUp, healthy, breaker, batchSize, budget, req, sw>>

\* repairAccount step 1: tx.Save(&account) inside db.Transaction: every
\* column of the row read in step 1 of ValidateAndRepair, with the new
\* available_balance.  The row is written (and held) now and the write is
\* visible to the others when the transaction commits.
CwSave ==
    /\ cw.pc = "cw_save"
    /\ cw' = [cw EXCEPT !.pc = "cw_clear"]
    /\ UNCHANGED <<reply, acct, initial, subs, counter, redisUp, healthy, breaker, batchSize, budget, req, sw>>

\* repairAccount step 2: ClearPending, its error only logged.
CwClear ==
    /\ cw.pc = "cw_clear"
    /\ counter' = IF redisUp THEN [counter EXCEPT ![cw.cur] = NoKey] ELSE counter
    /\ cw' = [cw EXCEPT !.pc = IF cw.pdb # 0 THEN "cw_add" ELSE "cw_commit"]
    /\ UNCHANGED <<reply, acct, initial, subs, redisUp, healthy, breaker, batchSize, budget, req, sw>>

\* repairAccount step 2: AddPending(id, pendingFromDB, account.SettledBalance).
CwAdd ==
    /\ cw.pc = "cw_add"
    /\ counter' = IF redisUp
                  THEN [counter EXCEPT ![cw.cur] =
                          AddPendingScript(@, cw.pdb, cw.snap[cw.cur].settled).key]
                  ELSE counter
    /\ cw' = [cw EXCEPT !.pc = "cw_commit"]
    /\ UNCHANGED <<reply, acct, initial, subs, redisUp, healthy, breaker, batchSize, budget, req, sw>>

\* The row repairAccount saves.
RepairedRow(account, actualAvailable) == [account EXCEPT !.avail = actualAvailable]

\* repairAccount returns nil: the transaction commits.
CwCommit ==
    /\ cw.pc = "cw_commit"
    /\ acct' = [acct EXCEPT ![cw.cur] =
                  RepairedRow(cw.snap[cw.cur], ActualAvailable(cw.snap[cw.cur], cw.pdb))]
    /\ cw' = CwNext(cw)
    /\ UNCHANGED <<reply, initial, subs, counter, redisUp, healthy, breaker, batchSize, budget, req, sw>>

Repair ==
    \/ CwFind
    \/ \E a \in DOMAIN acct : CwSum(a)
    \/ CwRedis
    \/ CwSave
    \/ CwClear
    \/ CwAdd
    \/ CwCommit

\* -------------------------------------------------------- specifications
\* The whole service: clients, settlement worker with its recovery, the
\* consistency checker, the health checker, Redis outages and key expiry.
Next ==
    \/ \E r \in DOMAIN req, a \in DOMAIN acct, amount \in 1..MaxAmt, type \in Types :
          Submit(r, a, amount, type)
    \/ \E r \in DOMAIN req : Handle(r)
    \/ Settlement
    \/ Recovery
    \/ Repair
    \/ Outage
    \/ \E a \in DOMAIN acct : KeyExpires(a)

Spec == Init /\ [][Next]_vars

\* Concurrent debits on the fast path only: Redis stays up, the health bit
\* stays green, no settlement, no repair, no key expiry.
FastBalances == {2, 1000000}

FastAmounts(balance) == IF balance = 1000000 THEN {300000, 1000000} ELSE {1, 2}

InitFast == InitWith({"a1"}, FastBalances, 1..FastReq, {DefaultBatchSize})

FastHandle(r) ==
    \/ QvAccount(r)
    \/ QvPending(r)
    \/ FpMax(r)
    \/ FpReserve(r)
    \/ FpInsert(r)

NextFast ==
    \/ \E r \in DOMAIN req, amount \in FastAmounts(initial["a1"]) :
          Submit(r, "a1", amount, "debit")
    \/ \E r \in DOMAIN req : FastHandle(r)

SpecFast == InitFast /\ [][NextFast]_vars

\* ----------------------------------------------------------- observations
RECURSIVE SumAmt(_)
\* Sum of the amounts of a set of requests.
SumAmt(rs) ==
    IF rs = {} THEN 0
    ELSE LET r == CHOOSE x \in rs : TRUE IN req[r].amt + SumAmt(rs \ {r})

Submitted == {r \in DOMAIN req : req[r].pc # "idle"}
Answered == {r \in DOMAIN req : req[r].pc = "done"}
Acknowledged == {r \in Answered : req[r].res = "pending"}
Refused == {r \in Answered : req[r].res = "rejected"}

\* No handler, settlement cycle or consistency run is between two of its steps.
AtRest == /\ \A r \in DOMAIN req : req[r].pc \in {"idle", "done"}
          /\ sw.pc = "idle"
          /\ cw.pc = "idle"

\* The projection settled + pending_credit - pending_debit of a row.
Available(row) == row.settled + row.pc - row.pd

PendingDebits(a) == {i \in PendingIds(a) : subs[i].type = "debit"}
PendingCredits(a) == {i \in PendingIds(a) : subs[i].type = "credit"}
SettledIds(a) == {i \in DOMAIN subs : subs[i].acct = a /\ subs[i].status = "SETTLED"}

\* ------------------------------------------- further specifications
\* Admissions only: concurrent debits on either path while Redis may fail
\* and come back; no settlement, no repair, no key expiry.
InitAdmit == InitWith({"a1"}, 1..AdmitBal, 1..MaxReq, {DefaultBatchSize})

NextAdmit ==
    \/ \E r \in DOMAIN req, amount \in 1..AdmitBal : Submit(r, "a1", amount, "debit")
    \/ \E r \in DOMAIN req : Handle(r)
    \/ Outage

SpecAdmit == InitAdmit /\ [][NextAdmit]_vars

\* A client that submits one debit at a time and waits for the answer; no
\* request arrives once the settlement worker has begun.
SeqSubmit(r, amount) ==
    /\ AtRest
    /\ \A i \in DOMAIN subs : subs[i].status = "PENDING"
    /\ Submit(r, "a1", amount, "debit")

\* The settlement ticker fires while no handler is running.
SeqSettlement ==
    /\ \A r \in DOMAIN req : req[r].pc \in {"idle", "done"}
    /\ Settlement

\* RecoverRedisFromDatabase at the end of that cycle: every row the cycle
\* read is terminal by then, so the map of step 2 is empty and only step 4
\* has keys to clear.
SeqRecovery ==
    \/ RcRead
    \/ \E a \in DOMAIN acct : RcRest(a)

InitSeq == InitWith({"a1"}, 0..SeqBal, 1..MaxReq, {1, DefaultBatchSize})

NextSeq ==
    \/ \E r \in DOMAIN req, amount \in 1..SeqBal : SeqSubmit(r, amount)
    \/ \E r \in DOMAIN req : Handle(r)
    \/ SeqSettlement
    \/ SeqRecovery
    \/ Outage

SpecSeq == InitSeq /\ [][NextSeq]_vars

\* Clients, the settlement worker with its recovery, Redis outages and key
\* expiry, without the consistency checker.  Every handler that was started
\* runs to its answer and the settlement ticker keeps firing.
NextLive ==
    \/ \E r \in DOMAIN req, amount \in 1..MaxAmt, type \in Types :
          Submit(r, "a1", amount, type)
    \/ \E r \in DOMAIN req : Handle(r)
    \/ Settlement
    \/ Recovery
    \/ Outage
    \/ \E a \in DOMAIN acct : KeyExpires(a)

SpecLive ==
    /\ Init
    /\ [][NextLive]_vars
    /\ WF_vars(\E r \in DOMAIN req : Handle(r))
    /\ WF_vars(Settlement \/ Recovery)

\* Requests that arrive during a Redis outage that does not end: one at a
\* time, each submitted after Redis went down, the health checker noticing
\* at any moment or not at all; then one settlement cycle.  With Redis down
\* at submission no handler gets past the counter read of
\* quickValidateBalance, so the reservation steps of the fast path are not
\* among the steps; a sub-entry only exists once the health bit is red, so
\* the settlement cycle ends without the recovery.
OutageSubmit(r, amount, type) ==
    /\ ~redisUp
    /\ AtRest
    /\ \A i \in DOMAIN subs : subs[i].status = "PENDING"
    /\ Submit(r, "a1", amount, type)

OutageHandle(r) ==
    \/ QvAccount(r)
    \/ QvPending(r)
    \/ FbLock(r)
    \/ FbSum(r)
    \/ FbInsert(r)
    \/ FbUpdate(r)

InitOutage == InitWith({"a1"}, 0..AdmitBal, 1..MaxReq, {DefaultBatchSize})

NextOutage ==
    \/ RedisDown
    \/ CheckHealth
    \/ \E r \in DOMAIN req, amount \in 1..AdmitBal, type \in Types :
          OutageSubmit(r, amount, type)
    \/ \E r \in DOMAIN req : OutageHandle(r)
    \/ SeqSettlement

SpecOutage == InitOutage /\ [][NextOutage]_vars

\* Concurrent debits and credits on the fast path only: Redis stays up and
\* the health bit stays green.
InitCredit == InitWith({"a1"}, 0..AdmitBal, 1..MaxReq, {DefaultBatchSize})

NextCredit ==
    \/ \E r \in DOMAIN req, amount \in 1..AdmitBal, type \in Types :
          Submit(r, "a1", amount, type)
    \/ \E r \in DOMAIN req : FastHandle(r)

SpecCredit == InitCredit /\ [][NextCredit]_vars

\* Outages that span whole settlement cycles: Redis and the health bit only
\* change between two cycles, a client submits one request at a time
\* between two cycles, and the ticker also fires when nothing is pending.
RecSubmit(r, amount, type) ==
    /\ AtRest
    /\ Submit(r, "a1", amount, type)

RecOutage ==
    /\ sw.pc = "idle"
    /\ Outage

NextRecover ==
    \/ \E r \in DOMAIN req, amount \in 1..MaxAmt, type \in Types : RecSubmit(r, amount, type)
    \/ \E r \in DOMAIN req : Handle(r)
    \/ SeqSettlement
    \/ SeqRecovery
    \/ SwEmpty
    \/ RecOutage

SpecRecover == Init /\ [][NextRecover]_vars

\* ValidateAndRepair with nothing running beside it: a client submits one
\* request at a time, Redis fails, returns and loses keys, and the
\* consistency ticker fires while no handler is in flight; requests,
\* outages and key expiry wait until the run is over.
RepOutage ==
    /\ cw.pc = "idle"
    /\ Outage

RepKeyExpires(a) ==
    /\ cw.pc = "idle"
    /\ KeyExpires(a)

SeqRepair ==
    /\ \A r \in DOMAIN req : req[r].pc \in {"idle", "done"}
    /\ Repair

InitRepair == InitWith({"a1"}, 0..SeqBal, 1..MaxReq, {DefaultBatchSize})

NextRepair ==
    \/ \E r \in DOMAIN req, amount \in 1..SeqBal, type \in Types : RecSubmit(r, amount, type)
    \/ \E r \in DOMAIN req : Handle(r)
    \/ SeqRepair
    \/ RepOutage
    \/ \E a \in DOMAIN acct : RepKeyExpires(a)

SpecRepair == InitRepair /\ [][NextRepair]_vars

\* The circuit breaker under short outages: a client submits debits of one
\* unit one at a time on an account that covers them all, Redis fails and
\* returns between the steps of a handler before the health checker's next
\* ping (the health bit stays green, so every request takes the fast path
\* and reaches CircuitBreaker.Call), and the clock advances while the
\* breaker is open.
BreakerOutage ==
    \/ RedisDown
    \/ RedisBack

InitBreaker ==
    /\ initial = [a \in {"a1"} |-> BreakerReq]
    /\ acct = [a \in {"a1"} |-> NewAccount(initial[a])]
    /\ subs = <<>>
    /\ counter = [a \in {"a1"} |-> NoKey]
    /\ redisUp = TRUE
    /\ healthy = TRUE
    /\ breaker = ClosedBreaker
    /\ batchSize = DefaultBatchSize
    /\ req = [r \in 1..BreakerReq |-> IdleReq]
    /\ sw = IdleSw
    /\ cw = IdleCw
    /\ budget = [outages |-> BreakerOutages, repairs |-> MaxRepairs, ticks |-> MaxTicks]
    /\ reply = NoReply

NextBreaker ==
    \/ \E r \in DOMAIN req : RecSubmit(r, 1, "debit")
    \/ \E r \in DOMAIN req : Handle(r)
    \/ BreakerOutage
    \/ TimePasses

SpecBreaker == InitBreaker /\ [][NextBreaker]_vars

\* A Call that does not wait for the mutex.
CbLockFree(r) ==
    /\ req[r].pc = "fp_reserve"
    /\ breaker' = [breaker EXCEPT !.holder = r]
    /\ req' = [req EXCEPT ![r] = [@ EXCEPT !.pc = "cb_check"]]
    /\ UNCHANGED <<reply, acct, initial, subs, counter, redisUp, healthy, batchSize, budget, sw, cw>>

\* CircuitBreaker.Call step by step, for callers that run side by side.
\* cb.mutex.Lock(): the caller waits until no one holds the mutex.
CbLock(r) ==
    /\ req[r].pc = "fp_reserve"
    /\ breaker.holder = 0
    /\ breaker' = [breaker EXCEPT !.holder = r]
    /\ req' = [req EXCEPT ![r] = [@ EXCEPT !.pc = "cb_check"]]
    /\ UNCHANGED <<reply, acct, initial, subs, counter, redisUp, healthy, batchSize, budget, sw, cw>>

\* The state check under the mutex: an open breaker refuses (the deferred
\* Unlock runs and the handler falls back) or, past the timeout, turns
\* half-open; then fn is called.
CbCheck(r) ==
    /\ req[r].pc = "cb_check"
    /\ IF BreakerRefuses(breaker)
       THEN /\ breaker' = [breaker EXCEPT !.holder = 0]
            /\ req' = [req EXCEPT ![r] = [@ EXCEPT !.pc = "fb_lock", !.max = 0]]
       ELSE /\ breaker' = [breaker EXCEPT !.state = IF @ = "OPEN" THEN "HALF_OPEN" ELSE @]
            /\ req' = [req EXCEPT ![r] = [@ EXCEPT !.pc = "cb_fn"]]
    /\ UNCHANGED <<reply, acct, initial, subs, counter, redisUp, healthy, batchSize, budget, sw, cw>>

\* An fn that hands a refusal of the script back as an error.
CallFailedOnRefusal(up, cancelled, accepted) == ~up \/ cancelled \/ ~accepted

\* What fn hands back to Call: cbErr, the error of AddPending; the script's
\* verdict stays in the closure's success variable.
CallFailed(up, cancelled, accepted) == ~up \/ cancelled

\* fn returns: AddPending ran (or failed), Call counts the outcome, the
\* deferred Unlock runs, and processWithRedis goes on as in FpReserve; the
\* response to a refusal of the script is told apart by its message
\* ("overspend protection"), which the path field records as "script".
CbFn(r) ==
    /\ req[r].pc = "cb_fn"
    /\ LET a == req[r].acct
           out == AddPendingScript(counter[a], req[r].amt, req[r].max)
           failed == CallFailed(redisUp, req[r].cancelled, out.ok)
       IN /\ breaker' = BreakerAfter(breaker, failed)
          /\ counter' = IF ~redisUp \/ req[r].cancelled THEN counter
                        ELSE [counter EXCEPT ![a] = out.key]
          /\ req' = [req EXCEPT ![r] =
                       IF failed THEN [@ EXCEPT !.pc = "fb_lock", !.max = 0]
                       ELSE IF out.ok THEN [@ EXCEPT !.pc = "fp_insert", !.max = 0]
                       ELSE Respond(r, "rejected", "script", 0)]
    /\ UNCHANGED <<reply, acct, initial, subs, redisUp, healthy, batchSize, budget, sw, cw>>

\* One step of a handler whose breaker call is taken step by step.
MutexHandle(r) ==
    \/ QvAccount(r)
    \/ QvPending(r)
    \/ FpMax(r)
    \/ CbLock(r)
    \/ CbCheck(r)
    \/ CbFn(r)
    \/ FpInsert(r)
    \/ FbLock(r)
    \/ FbSum(r)
    \/ FbInsert(r)
    \/ FbUpdate(r)

\* The requests whose handler is running.
InFlight == {r \in DOMAIN req : req[r].pc \notin {"idle", "done"}}

\* Clients that keep at most MaxInFlight debits of one unit in flight.
MutexSubmit(r) ==
    /\ Cardinality(InFlight) < MaxInFlight
    /\ Submit(r, "a1", 1, "debit")

\* The circuit breaker with callers side by side: the account covers one
\* debit or all of them, Redis fails and returns at any moment of one outage
\* while the health bit stays green, and the clock advances while the
\* breaker is open.
InitMutex ==
    /\ initial \in [{"a1"} -> {1, BreakerReq}]
    /\ acct = [a \in {"a1"} |-> NewAccount(initial[a])]
    /\ subs = <<>>
    /\ counter = [a \in {"a1"} |-> NoKey]
    /\ redisUp = TRUE
    /\ healthy = TRUE
    /\ breaker = ClosedBreaker
    /\ batchSize = DefaultBatchSize
    /\ req = [r \in 1..BreakerReq |-> IdleReq]
    /\ sw = IdleSw
    /\ cw = IdleCw
    /\ budget = [outages |-> MaxOutages, repairs |-> MaxRepairs, ticks |-> MaxTicks]
    /\ reply = NoReply

NextMutex ==
    \/ \E r \in DOMAIN req : MutexSubmit(r)
    \/ \E r \in DOMAIN req : MutexHandle(r)
    \/ BreakerOutage
    \/ TimePasses

SpecMutex == InitMutex /\ [][NextMutex]_vars

\* The counter operations called directly, one after the other in any
\* order (each is a single EVAL or DEL, which Redis runs to its end before
\* it starts the next command); the values are in minor units.
CounterDeltas == {-50, 25, 50, 100, 150}

CounterCeilings == {100, 200, 250}

\* redisCounter.AddPending(accountID, amount, maxBalance).
CallAddPending(a, amount, maxBalance) ==
    /\ redisUp
    /\ LET out == AddPendingReply(counter[a], amount, maxBalance)
       IN /\ counter' = [counter EXCEPT ![a] = AddPendingScript(@, amount, maxBalance).key]
          /\ reply' = [op |-> "add", delta |-> amount, ceiling |-> maxBalance,
                       ok |-> out.ok, total |-> out.total, expire |-> out.expire]
    /\ UNCHANGED <<acct, initial, subs, redisUp, healthy, breaker, batchSize, budget, req, sw, cw>>

\* redisCounter.RemovePending(accountID, amount): only the error is returned.
CallRemovePending(a, amount) ==
    /\ redisUp
    /\ counter' = [counter EXCEPT ![a] = RemovePendingScript(@, amount)]
    /\ reply' = [op |-> "remove", delta |-> amount, ceiling |-> 0,
                 ok |-> TRUE, total |-> 0, expire |-> TRUE]
    /\ UNCHANGED <<acct, initial, subs, redisUp, healthy, breaker, batchSize, budget, req, sw, cw>>

\* redisCounter.ClearPending(accountID): DEL.
CallClearPending(a) ==
    /\ redisUp
    /\ counter' = [counter EXCEPT ![a] = NoKey]
    /\ reply' = [op |-> "clear", delta |-> 0, ceiling |-> 0,
                 ok |-> TRUE, total |-> 0, expire |-> FALSE]
    /\ UNCHANGED <<acct, initial, subs, redisUp, healthy, breaker, batchSize, budget, req, sw, cw>>

InitCounter == InitWith({"a1"}, {0}, 1..MaxReq, {DefaultBatchSize})

NextCounter ==
    \/ \E amount \in CounterDeltas, maxBalance \in CounterCeilings :
          CallAddPending("a1", amount, maxBalance)
    \/ \E amount \in CounterDeltas \ {-50} : CallRemovePending("a1", amount)
    \/ CallClearPending("a1")

SpecCounter == InitCounter /\ [][NextCounter]_vars

\* Fast-path admissions whose insert fails or whose context is cancelled:
\* a client submits one request at a time, Redis stays up and the health
\* bit green; a cancelled reservation fails in the breaker and the handler
\* falls through to the fallback's first read, which fails as well.
CancelHandle(r) ==
    \/ FastHandle(r)
    \/ FbLock(r)
    \/ FpInsertFails(r)

InitCancel == InitWith({"a1"}, 1..AdmitBal, 1..MaxReq, {DefaultBatchSize})

NextCancel ==
    \/ \E r \in DOMAIN req, amount \in 1..AdmitBal, type \in Types :
          RecSubmit(r, amount, type)
    \/ \E r \in DOMAIN req : CancelHandle(r)
    \/ \E r \in DOMAIN req : Cancel(r)

SpecCancel == InitCancel /\ [][NextCancel]_vars

\* Two accounts: a client submits one debit of one unit at a time on either
\* account, on the fast path or, after an outage was noticed, on the
\* fallback; the settlement ticker fires while no handler is running.
TwoSubmit(r, a) ==
    /\ AtRest
    /\ \A i \in DOMAIN subs : subs[i].status = "PENDING"
    /\ Submit(r, a, 1, "debit")

InitTwo == InitWith({"a1", "a2"}, 1..SeqBal, 1..MaxReq, {1, DefaultBatchSize})

NextTwo ==
    \/ \E r \in DOMAIN req, a \in DOMAIN acct : TwoSubmit(r, a)
    \/ \E r \in DOMAIN req : Handle(r)
    \/ SeqSettlement
    \/ SeqRecovery
    \/ Outage

SpecTwo == InitTwo /\ [][NextTwo]_vars

\* ----------------------------------------------------------------- claims
\* C1: in every reachable state every account (created with a balance >= 0)
\* has settled_balance >= 0.
C1_SettledNonNegative == \A a \in DOMAIN acct : acct[a].settled >= 0

\* C1 witness: an account that started with money was settled down to zero
\* and a settlement refused a debit that would have overdrawn it.
C1_Witness ==
    \E a \in DOMAIN acct :
        /\ initial[a] > 0
        /\ acct[a].settled = 0
        /\ \E i \in DOMAIN subs :
              subs[i].acct = a /\ subs[i].type = "debit" /\ subs[i].status = "REJECTED"


\* C2: at rest every account's settled balance covers its pending debits
\* minus its pending credits.
C2_PendingCovered ==
    AtRest =>
        \A a \in DOMAIN acct :
            acct[a].settled >=
                SumAmounts(subs, PendingDebits(a)) - SumAmounts(subs, PendingCredits(a))

\* C3: at rest the signed sum of an account's SETTLED sub-entries (credits
\* add, debits subtract) is its settled balance minus its initial balance.
C3_SettledSumMatches ==
    AtRest =>
        \A a \in DOMAIN acct :
            TotalDelta(subs, SettledIds(a)) = acct[a].settled - initial[a]

\* C4: a sub-entry is created PENDING and its status only ever changes from
\* PENDING to SETTLED or REJECTED; a terminal status never changes again.
C4_StatusMovesOnce ==
    [][/\ Len(subs') >= Len(subs)
       /\ \A i \in DOMAIN subs' \ DOMAIN subs : subs'[i].status = "PENDING"
       /\ \A i \in DOMAIN subs :
             subs'[i].status # subs[i].status =>
                 subs[i].status = "PENDING" /\ subs'[i].status \in {"SETTLED", "REJECTED"}]_vars

\* C4 witness: a later settlement cycle is under way while an entry of an
\* earlier cycle is already terminal.
C4_Witness ==
    /\ sw.pc \in {"sw_reject", "sw_mark"}
    /\ \E i \in DOMAIN subs : subs[i].status \in {"SETTLED", "REJECTED"}

\* C5: the debits the counter accepted never sum to more than the available
\* balance; two debits for the full balance: one accepted, one rejected; five
\* debits of 300,000 against 1,000,000: three accepted, two rejected.
C5_FastPathNoOverspend ==
    LET reserved == {r \in DOMAIN req : req[r].pc = "fp_insert"} \cup Acknowledged
        avail == Available(acct["a1"])
    IN /\ SumAmt(reserved) <= avail
       /\ (Submitted = Answered /\ Cardinality(Submitted) = 2
             /\ \A r \in Submitted : req[r].amt = avail)
          => Cardinality(Acknowledged) = 1 /\ Cardinality(Refused) = 1
       /\ (Submitted = Answered /\ Cardinality(Submitted) = 5 /\ avail = 1000000
             /\ \A r \in Submitted : req[r].amt = 300000)
          => Cardinality(Acknowledged) = 3 /\ Cardinality(Refused) = 2

\* C5 witness: the five debits of 300,000 were answered, three of them PENDING.
C5_Witness ==
    /\ Cardinality(Answered) = 5
    /\ \A r \in Answered : req[r].amt = 300000
    /\ Cardinality(Acknowledged) = 3

\* C6: of two fallback debits on one account, each for the full available
\* balance, exactly one is accepted and one rejected.
C6_FallbackOneOfTwo ==
    (/\ Submitted = Answered
     /\ Cardinality(Submitted) = 2
     /\ \A r \in Submitted : req[r].path = "db" /\ req[r].amt = initial["a1"])
    => Cardinality(Acknowledged) = 1 /\ Cardinality(Refused) = 1

\* C7: a debit acknowledged by the fast path and a debit acknowledged by the
\* fallback path never total more than the settled balance.
C7_MixedPathsCovered ==
    \A r1, r2 \in Acknowledged :
        (req[r1].path = "redis" /\ req[r2].path = "db")
            => req[r1].amt + req[r2].amt <= acct["a1"].settled

\* C8: once the settlement cycle that follows an acknowledged debit has
\* decided its sub-entry, the entry is SETTLED and the settled balance is the
\* initial balance less the amount, whichever path served the admission.
C8_DebitSettledOnce ==
    \A r \in Acknowledged :
        (Cardinality(Submitted) = 1 /\ subs[req[r].sub].status # "PENDING")
            => /\ subs[req[r].sub].status = "SETTLED"
               /\ acct["a1"].settled = initial["a1"] - req[r].amt

\* C9: after accepted debits that sum to D <= S and one complete settlement
\* cycle, settled = S - D, pending_debit = pending_credit = 0 and nothing is
\* pending, for every batch size.
C9_CycleSettlesAll ==
    (/\ AtRest
     /\ \E i \in DOMAIN subs : subs[i].status # "PENDING"
     /\ SumAmt(Acknowledged) <= initial["a1"])
    => /\ acct["a1"].settled = initial["a1"] - SumAmt(Acknowledged)
       /\ acct["a1"].pd = 0
       /\ acct["a1"].pc = 0
       /\ PendingIds("a1") = {}

C11_OutageDebitAccepted ==
    \A r \in Answered :
        (/\ Cardinality(Submitted) = 1
         /\ req[r].type = "debit"
         /\ req[r].amt <= initial["a1"])
        => req[r].res = "pending" /\ req[r].path = "db"

\* C12: on the fast path a credit is never rejected, whatever the balance: a
\* credit to an account with balance zero is answered PENDING.
C12_CreditNeverRefused ==
    \A r \in Answered : req[r].type = "credit" => req[r].res = "pending"

\* C13: a credit served by the fallback path is accepted whatever the
\* balance, raises pending_credit (not pending_debit) by its amount, and the
\* next settlement adds the amount to the settled balance and zeroes
\* pending_credit.
C13_FallbackCredit ==
    \A r \in Answered :
        (Cardinality(Submitted) = 1 /\ req[r].type = "credit" /\ req[r].path = "db")
        => /\ req[r].res = "pending"
           /\ (subs[req[r].sub].status = "PENDING" /\ sw.pc \in {"idle", "sw_account"})
                 => acct["a1"].pc = req[r].amt /\ acct["a1"].pd = 0
           /\ subs[req[r].sub].status # "PENDING"
                 => /\ subs[req[r].sub].status = "SETTLED"
                    /\ acct["a1"].settled = initial["a1"] + req[r].amt
                    /\ acct["a1"].pc = 0

\* The balance still available to the request of slot r of the sequential
\* client: the initial balance less the debits acknowledged before it.
AvailableBefore(r) == initial["a1"] - SumAmt({q \in Acknowledged : q < r})

C15_RejectionChangesNothing ==
    [][/\ \A r \in DOMAIN req :
             (req[r].pc # "done" /\ req'[r].pc = "done" /\ req'[r].res = "rejected")
             => counter' = counter /\ acct' = acct /\ subs' = subs
       /\ (counter' # counter \/ acct' # acct \/ subs' # subs)
             => \E r \in DOMAIN req :
                   /\ req'[r] # req[r]
                   /\ req'[r].pc \in {"fp_insert", "fb_update", "done"}
                   /\ req'[r].pc = "done" => req'[r].res = "pending"
       /\ \A r \in DOMAIN req :
             req[r].pc \in {"fp_insert", "fb_insert", "fb_update"}
             => req'[r].res # "rejected"]_vars

\* C15 witness: a debit was rejected on the fast path after another one was
\* acknowledged, and the counter and the table hold the acknowledged one only.
C15_Witness ==
    \E r \in Refused, q \in Acknowledged :
        /\ req[r].path = "redis"
        /\ counter["a1"] = req[q].amt
        /\ Len(subs) = 1

\* C16: when settleAccount has rejected an account's group, the account's
\* pending_debit is zero and its settled balance is what it was.
C16_RejectionResetsPending ==
    [][(sw.pc = "sw_unreserve" /\ sw'.pc # "sw_unreserve")
          => /\ acct'[sw.cur].pd = 0
             /\ acct'[sw.cur].settled = acct[sw.cur].settled]_vars

\* The signed sum of the PENDING sub-entries of account a.
SignedPending(a) ==
    SumAmounts(subs, PendingDebits(a)) - SumAmounts(subs, PendingCredits(a))

\* The counter of every account agrees with its PENDING sub-entries.
CountersMatch ==
    \A a \in DOMAIN acct :
        IF PendingIds(a) = {} THEN counter[a] \in {NoKey, 0}
        ELSE GetPending(a) = SignedPending(a)

\* C17: when a settlement cycle ends while Redis is reachable and the health
\* bit is green, no admission being in flight, every counter equals the
\* signed sum of the account's PENDING sub-entries (absent or 0 if none).
C17_CountersRecovered ==
    [][(/\ redisUp /\ healthy
        /\ \A r \in DOMAIN req : req[r].pc \in {"idle", "done"}
        /\ \/ sw.pc # "idle" /\ sw'.pc = "idle"
           \/ budget'.ticks < budget.ticks)
       => CountersMatch']_vars

\* The counters hold the pending totals and the stored available balances
\* are the projections of the rows.
Repaired ==
    \A a \in DOMAIN acct :
        /\ GetPending(a) = GetTotalPendingByAccountID(a)
        /\ acct[a].avail = Available(acct[a])

\* C18: when ValidateAndRepair ends, Redis being reachable and nothing else
\* running, every counter equals the pending total of the account's
\* sub-entries and every stored available_balance equals
\* settled + pending_credit - pending_debit.
C18_RepairRestores ==
    [][(cw.pc # "idle" /\ cw'.pc = "idle" /\ redisUp) => Repaired']_vars

\* The request whose handler leaves CircuitBreaker.Call in this step.
Calling(r) == req[r].pc = "fp_reserve" /\ req'[r].pc # "fp_reserve"

\* C19: the breaker is closed below the threshold and open from it on; it
\* goes from closed to open exactly in the failed call that brings the
\* count of consecutive failures to the threshold; a successful call sets
\* the count to zero and closes the breaker; a call made while the breaker
\* is open and the cooldown has not elapsed returns its error to the caller
\* without invoking fn (counter and breaker unchanged).
C19_BreakerTrips ==
    /\ [](/\ breaker.state \in {"CLOSED", "OPEN"}
          /\ breaker.state = "OPEN" <=> breaker.fails >= FailureThreshold)
    /\ [][/\ (breaker.state = "CLOSED" /\ breaker'.state = "OPEN")
             <=> (\E r \in DOMAIN req :
                     /\ Calling(r)
                     /\ ~redisUp
                     /\ breaker.state = "CLOSED"
                     /\ breaker.fails + 1 = FailureThreshold)
          /\ \A r \in DOMAIN req :
                Calling(r) =>
                  /\ req'[r].pc \in {"fp_insert", "done"} =>
                        breaker'.fails = 0 /\ breaker'.state = "CLOSED"
                  /\ (breaker.state = "CLOSED" /\ ~redisUp) =>
                        breaker'.fails = breaker.fails + 1 /\ req'[r].pc = "fb_lock"
                  /\ (breaker.state = "OPEN" /\ breaker.since < CooldownTicks) =>
                        /\ req'[r].pc = "fb_lock"
                        /\ breaker' = breaker
                        /\ counter' = counter]_vars

\* C19 witness: three calls failed and opened the breaker, and a fourth
\* request was turned to the fallback by the open breaker while Redis was
\* reachable again.
C19_Witness ==
    /\ breaker.state = "OPEN"
    /\ breaker.fails = FailureThreshold
    /\ breaker.since < CooldownTicks
    /\ redisUp
    /\ Cardinality(Submitted) = FailureThreshold + 1
    /\ \A r \in Submitted : req[r].pc = "fb_lock" \/ (req[r].pc = "done" /\ req[r].path = "db")
    /\ \E r \in Submitted : req[r].pc = "fb_lock"

\* C20: a call made while the breaker is open and the time since the last
\* failure is at least the cooldown (the boundary instant included) is let
\* through as a probe: if it succeeds the breaker is closed with count
\* zero, if it fails the breaker is open again and the cooldown restarts.
C20_ProbeAtBoundary ==
    [][\A r \in DOMAIN req :
          (Calling(r) /\ breaker.state = "OPEN" /\ breaker.since >= CooldownTicks) =>
             /\ redisUp => breaker' = ClosedBreaker
             /\ ~redisUp => /\ breaker'.state = "OPEN"
                            /\ breaker'.fails = breaker.fails + 1
                            /\ breaker'.since = 0]_vars

\* C21: while the breaker is open and within its cooldown, a handler never
\* reads the counter in the pre-check and never ends a request on the fast
\* path: every admission goes through the fallback without touching Redis.
C21_OpenBreakerSkipsCounter ==
    [][\A r \in DOMAIN req :
          (breaker.state = "OPEN" /\ breaker.since < CooldownTicks) =>
             /\ ~(req[r].pc = "qv_pending" /\ req'[r].pc # "qv_pending")
             /\ (req[r].pc # "done" /\ req'[r].pc = "done") => req'[r].path = "db"]_vars

\* C22: a call of AddPending(key, delta, ceiling) acts as the reference:
\* with current the stored value (0 if absent) and candidate = current +
\* delta, a candidate above the ceiling or below zero returns
\* (false, current) and leaves the key and its TTL alone, any other
\* candidate is stored with a fresh TTL and (true, candidate) is returned.
C22_AddPendingReference ==
    [][(reply' # reply /\ reply'.op = "add") =>
          LET current == GetPending("a1")
              candidate == current + reply'.delta
          IN IF candidate > reply'.ceiling \/ candidate < 0
             THEN /\ ~reply'.ok
                  /\ reply'.total = current
                  /\ counter' = counter
                  /\ ~reply'.expire
             ELSE /\ reply'.ok
                  /\ reply'.total = candidate
                  /\ counter'["a1"] = candidate
                  /\ reply'.expire]_vars

\* C23: settleAccount rejects the group of an account exactly when
\* settled_balance plus the group's delta (credits minus debits) is
\* negative, whatever pending_debit and pending_credit hold.
C23_DecidesOnSettled ==
    [][(sw.pc = "sw_account" /\ sw'.pc # "sw_account") =>
          LET a == sw'.cur
              delta == TotalDelta(subs, GroupIds(sw.list, sw.i, a))
          IN sw'.pc = "sw_reject" <=> acct[a].settled + delta < 0]_vars

\* The statuses, the account row and the counter when settleAccount is done
\* with a group; `reachable` tells in which states the counter is expected
\* to have been reduced.
OneStatusAfter(reachable) ==
    LET a == sw.cur
        delta == TotalDelta(subs, SwIds)
        after == IF counter'[a] = NoKey THEN 0 ELSE counter'[a]
    IN /\ (sw.pc = "sw_reject" /\ sw'.pc # "sw_reject") => acct'[a] = acct[a]
       /\ (sw.pc = "sw_unreserve" /\ sw'.pc # "sw_unreserve") =>
             /\ \A i \in SwIds : subs'[i].status = "REJECTED"
             /\ acct'[a] = acct[a]
             /\ after = IF reachable THEN Max2(GetPending(a) - Abs(delta), 0)
                        ELSE GetPending(a)
       /\ (sw.pc = "sw_clear" /\ sw'.pc # "sw_clear") =>
             \A i \in SwIds : subs'[i].status = "SETTLED"

\* C24 (as the code has it): when settleAccount is done with a group, either
\* every sub-entry of the group is REJECTED, the rejection left
\* settled_balance and version alone, and the counter is reduced by |delta| floored at 0 if
\* Redis answers at that moment (left as it is if Redis does not), or every
\* sub-entry of the group is SETTLED.
C24_BatchOneStatus == [][OneStatusAfter(redisUp)]_vars

\* C24 witness: a group of two entries was rejected as a whole while Redis
\* answered, and RemovePending left the key at 0.
C24_Witness ==
    /\ Len(subs) = 2
    /\ \A i \in DOMAIN subs : subs[i].status = "REJECTED"
    /\ counter["a1"] = 0
    /\ acct["a1"].settled = initial["a1"]

\* C24 as stated: the counter is reduced by |delta| in every rejection.
C24_CounterAlwaysReduced == [][OneStatusAfter(TRUE)]_vars

\* C25: settleAccount marks the sub-entries of a group SETTLED only if its
\* account update took effect: the row then carries the version after the
\* one settleAccount read, the stamp of this settlement, the new
\* settled_balance and no pending amounts.
C25_SettlementAtomic ==
    [][(sw.pc = "sw_mark" /\ sw'.pc # "sw_mark") =>
          /\ acct[sw.cur].last = MaxOf(SwIds)
          /\ acct[sw.cur].pd = 0
          /\ acct[sw.cur].pc = 0]_vars

\* C26: a fallback admission that answers REJECTED has persisted nothing,
\* and one that answers PENDING has persisted its sub-entry and, in the
\* step that answers, the pending increment with the version bump.
C26_FallbackAtomic ==
    [][\A r \in DOMAIN req :
          (req[r].pc # "done" /\ req'[r].pc = "done" /\ req'[r].path = "db") =>
             LET a == req[r].acct
             IN /\ req'[r].res = "rejected" => (subs' = subs /\ acct' = acct)
                /\ req'[r].res = "pending" =>
                      /\ req'[r].sub \in PendingIds(a) \cup SettledIds(a)
                      /\ acct'[a].version = acct[a].version + 1
                      /\ acct'[a].pd + acct'[a].pc = acct[a].pd + acct[a].pc + req[r].amt]_vars

\* settleAccount is between its GetByIDForUpdate of account a and its last
\* write (UpdateStatusBatch).
SettlementHolds(a) == sw.cur = a /\ sw.pc \in {"sw_update", "sw_mark", "sw_reject"}

\* The fallback admission of request r is between its GetByIDForUpdate and
\* its last write (UpdateBalance).
FallbackHolds(r) == req[r].pc \in {"fb_sum", "fb_insert", "fb_update"}

\* C27: a settlement of an account and a fallback admission on that account
\* are never both between their locked read of the account row and their
\* last write.
C27_MutuallyExclusive ==
    \A r \in DOMAIN req : ~(FallbackHolds(r) /\ SettlementHolds(req[r].acct))

\* C28: an UpdateBalance issued with a version other than the stored one
\* changes nothing and its caller does not go on: settleAccount does not
\* reach UpdateStatusBatch and the fallback does not answer PENDING.
C28_StaleUpdateFails ==
    [][/\ (sw.pc = "sw_update" /\ sw'.pc # "sw_update"
             /\ sw.row.version # acct[sw.cur].version) =>
             (acct' = acct /\ sw'.pc # "sw_mark")
       /\ \A r \in DOMAIN req :
             (req[r].pc = "fb_update" /\ req'[r].pc # "fb_update"
                /\ req[r].row.version # acct[req[r].acct].version) =>
                (acct' = acct /\ req'[r].res # "pending")]_vars

\* A request leaves the insert step of the fast path without a sub-entry.
InsertFailed(r) ==
    /\ req[r].pc = "fp_insert"
    /\ req'[r].pc = "done"
    /\ subs' = subs

\* The counter after the step is the counter before it less the amount,
\* floored at zero.
RolledBack(r) ==
    LET a == req[r].acct
    IN (IF counter'[a] = NoKey THEN 0 ELSE counter'[a])
          = Max2(GetPending(a) - req[r].amt, 0)

\* C29: when the insert of the fast path fails after the reservation, the
\* handler returns an error, there is no sub-entry for the request and the
\* counter has been reduced by the amount (floored at zero).
C29_InsertFailureRollsBack ==
    [][\A r \in DOMAIN req :
          InsertFailed(r) => (req'[r].res = "error" /\ req'[r].sub = 0 /\ RolledBack(r))]_vars

\* C30: when the context of a fast-path admission is cancelled between the
\* reservation and the insert, no sub-entry is created and the counter no
\* longer contains the amount once the handler has returned.
C30_CancelRollsBack ==
    [][\A r \in DOMAIN req :
          (req[r].pc = "fp_insert" /\ req[r].cancelled /\ req'[r].pc = "done") =>
             (subs' = subs /\ RolledBack(r))]_vars

\* C31: the stored version of an account never decreases, and every step
\* that changes the account row increases it by one.
C31_VersionCounts ==
    [][\A a \in DOMAIN acct :
          /\ acct'[a].version >= acct[a].version
          /\ acct'[a] # acct[a] => acct'[a].version = acct[a].version + 1]_vars

\* C32: whenever no handler, settlement cycle or consistency run is between
\* two of its steps, the stored available_balance of every account is
\* settled_balance + pending_credit - pending_debit of the same row.
C32_AvailableIsProjection ==
    AtRest => \A a \in DOMAIN acct : acct[a].avail = Available(acct[a])

\* C33: the write of repairAccount changes no column of the account row but
\* available_balance, and changes no sub-entry.
C33_RepairWritesAvailableOnly ==
    [][(cw.pc = "cw_commit" /\ cw'.pc # "cw_commit") =>
          LET a == cw.cur
          IN /\ acct'[a].settled = acct[a].settled
             /\ acct'[a].pd = acct[a].pd
             /\ acct'[a].pc = acct[a].pc
             /\ acct'[a].last = acct[a].last
             /\ subs' = subs]_vars

\* C34: no step of an admission handler changes the settled_balance or the
\* last_settlement_at of an account.
C34_AdmissionKeepsSettled ==
    [][(req' # req) =>
          \A a \in DOMAIN acct :
             /\ acct'[a].settled = acct[a].settled
             /\ acct'[a].last = acct[a].last]_vars

\* The ids of the rows processSettlement read at the start of the cycle.
CycleIds == {sw.list[k] : k \in DOMAIN sw.list}

\* C35: when the loop of a settlement cycle ends, every sub-entry the cycle
\* read has been settled or rejected with its group, whichever groups were
\* rejected before it, and the recovery of the counters follows if the
\* health bit is green.
C35_CycleGoesOn ==
    [][(sw.pc \in {"sw_unreserve", "sw_clear"} /\ sw'.pc \in {"idle", "rc_read"}) =>
          /\ \A i \in CycleIds : subs'[i].status \in {"SETTLED", "REJECTED"}
          /\ healthy => sw'.pc = "rc_read"]_vars

\* C35 witness: the group of a1 was rejected, the group of a2 was settled
\* in the same cycle, and the recovery is about to run.
C35_Witness ==
    /\ sw.pc = "rc_read"
    /\ \E i \in DOMAIN subs : subs[i].acct = "a1" /\ subs[i].status = "REJECTED"
    /\ \E i \in DOMAIN subs : subs[i].acct = "a2" /\ subs[i].status = "SETTLED"

\* C36: the counter key of every account is absent or holds a value >= 0.
C36_CounterNonNegative ==
    \A a \in DOMAIN counter : counter[a] = NoKey \/ counter[a] >= 0

\* C36 witness: the only sub-entry, admitted by the fallback while the key
\* was absent, was rejected by the settlement and RemovePending stored
\* max(0 - amount, 0) = 0.
C36_Witness ==
    /\ Len(subs) = 1
    /\ subs[1].status = "REJECTED"
    /\ req[1].path = "db"
    /\ counter["a1"] = 0

\* C37: a request that arrives while the health bit is red starts on the
\* fallback, and no step of the fallback reads or writes the counter or
\* calls through the circuit breaker: counter and breaker are as before
\* the step, and the request is answered by the fallback.
C37_UnhealthyTakesFallback ==
    [][\A r \in DOMAIN req :
          /\ (req[r].pc = "idle" /\ req'[r].pc # "idle" /\ ~healthy) =>
                req'[r].pc = "fb_lock"
          /\ (req[r].pc \in {"fb_lock", "fb_sum", "fb_insert", "fb_update"}
                /\ req'[r] # req[r]) =>
                /\ counter' = counter
                /\ breaker' = breaker
                /\ req'[r].pc \in {"fb_sum", "fb_insert", "fb_update", "done"}
                /\ req'[r].pc = "done" => req'[r].path = "db"]_vars

\* C37 witness: the only request arrived with the health bit red and was
\* acknowledged by the fallback; the key is absent and the breaker has seen
\* no call.
C37_Witness ==
    /\ ~healthy
    /\ Cardinality(Submitted) = 1
    /\ \E r \in Acknowledged : req[r].path = "db"
    /\ counter["a1"] = NoKey
    /\ breaker = ClosedBreaker

\* The callers inside CircuitBreaker.Call.
InCall == {r \in DOMAIN req : req[r].pc \in {"cb_check", "cb_fn"}}

\* C38: calls through the circuit breaker exclude one another: at most one
\* caller is inside Call and it holds the mutex; the breaker is half-open
\* only while one probe runs its wrapped function, and a caller that gets
\* to look at the state never finds it half-open.
C38_CallsExclusive ==
    /\ Cardinality(InCall) <= 1
    /\ \A r \in InCall : breaker.holder = r
    /\ InCall = {} => breaker.holder = 0
    /\ breaker.state = "HALF_OPEN" =>
          \E r \in DOMAIN req : InCall = {r} /\ req[r].pc = "cb_fn"
    /\ \A r \in DOMAIN req : req[r].pc = "cb_check" => breaker.state # "HALF_OPEN"

\* C38 witness: a probe runs its wrapped function on the half-open breaker
\* while another caller waits for the mutex.
C38_Witness ==
    /\ breaker.state = "HALF_OPEN"
    /\ \E r, q \in DOMAIN req : req[r].pc = "cb_fn" /\ req[q].pc = "fp_reserve"

\* C40: a reservation the script refuses for insufficient funds counts as
\* a success of the breaker call: the step leaves the breaker closed with a
\* failure count of zero; the breaker only opens in a step in which the
\* backend fails, and an open breaker has counted at least
\* FailureThreshold failures.
C40_RefusalIsNoFailure ==
    [][/\ \A r \in DOMAIN req :
             (req[r].pc = "cb_fn" /\ req'[r].pc = "done" /\ req'[r].res = "rejected") =>
                breaker' = ClosedBreaker
       /\ (breaker.state # "OPEN" /\ breaker'.state = "OPEN") => ~redisUp
       /\ breaker'.state = "OPEN" => breaker'.fails >= FailureThreshold]_vars

\* C40 witness: one caller fell back after a backend error that the
\* breaker counted, the script refused a later caller, and the breaker is
\* closed with a failure count of zero.
C40_Witness ==
    /\ breaker = ClosedBreaker
    /\ Cardinality(Submitted) = 3
    /\ \E p, q \in DOMAIN req :
          /\ req[p].pc = "done" /\ req[p].res = "rejected" /\ req[p].path = "script"
          /\ req[q].pc = "fb_lock"
          /\ p > q

\* C39: a handler step inserts at most one sub-entry, once per request, in
\* status PENDING with the request's account id, amount and direction; a
\* request answered PENDING has inserted its entry, in the answering step
\* or before it, and a request answered REJECTED has inserted none.
C39_OneEntryPerPending ==
    [][\A r \in DOMAIN req :
          LET mine == [acct |-> req[r].acct, amt |-> req[r].amt,
                       type |-> req[r].type, status |-> "PENDING"]
              answered == req[r].pc # "done" /\ req'[r].pc = "done"
          IN /\ req'[r] # req[r] =>
                   \/ subs' = subs
                   \/ /\ req[r].sub = 0
                      /\ subs' = Append(subs, mine)
                      /\ req'[r].sub = Len(subs')
             /\ (answered /\ req'[r].res = "pending") =>
                   /\ req'[r].sub \in DOMAIN subs'
                   /\ req[r].sub = 0 => subs' # subs
                   /\ req[r].sub # 0 => req'[r].sub = req[r].sub /\ subs' = subs
                   /\ \A q \in DOMAIN req \ {r} : req'[q].sub # req'[r].sub
                   /\ LET e == subs'[req'[r].sub]
                      IN e.acct = req[r].acct /\ e.amt = req[r].amt /\ e.type = req[r].type
             /\ (answered /\ req'[r].res = "rejected") =>
                   req[r].sub = 0 /\ subs' = subs]_vars

\* C39 witness: a credit was answered PENDING and its entry is the only row;
\* the other request was answered REJECTED.
C39_Witness ==
    /\ Len(subs) = 1
    /\ Refused # {}
    /\ \E r \in Acknowledged :
          /\ req[r].type = "credit"
          /\ req[r].sub = 1
          /\ subs[1] = [acct |-> req[r].acct, amt |-> req[r].amt,
                        type |-> "credit", status |-> "PENDING"]

====
